---- MODULE Spec2Model ----
(***************************************************************************)
(* Model of src/generator.rs of sudoku-variants: the shuffle utility, the  *)
(* randomized backtracking Generator and the greedy Reducer, together with *)
(* the two solvers the reducer is used with (the crate's exact             *)
(* BacktrackingSolver and the test module's TopLeftSolver).                *)
(*                                                                         *)
(* A grid is a function from <<column, row>> (zero-based) to 0..size,      *)
(* where 0 stands for an empty cell (None).                                *)
(***************************************************************************)
EXTENDS Integers, Sequences, FiniteSets, TLC

VARIABLES
    pc,           \* position of the caller: start, gen, generated, ...
    block_width,  \* argument of Generator::generate
    block_height, \* argument of Generator::generate
    rule,         \* the constraint handed to Generator::generate
    grid,         \* sudoku.grid()
    stack,        \* active generate_rec frames, outermost first
    solver,       \* the solver owned by the Reducer
    coords,       \* the part of the shuffled coordinate list not yet visited
    number,       \* the digit remembered by reduce during a trial removal
    original,     \* ghost: the grid as the Generator returned it
    before,       \* ghost: the grid as it was handed to the running reduce
    reduces       \* ghost: number of reduce calls started so far

vars == <<pc, block_width, block_height, rule, grid, stack, solver, coords,
          number, original, before, reduces>>

(***************************************************************************)
(* Bounds of the model.                                                    *)
(***************************************************************************)
\* largest grid size (block_width * block_height) handed to generate
MaxSize == 3
\* largest grid size on which the reducer is run
MaxReduceSize == 2
\* number of times reduce is applied to the same Sudoku
MaxReduces == 2

None == 0

Rules == {"Default", "DefaultDiagonal"}
Solvers == {"BacktrackingSolver", "TopLeftSolver"}

(***************************************************************************)
(* Grid and Sudoku capabilities used by generator.rs                       *)
(***************************************************************************)
Size(bw, bh) == bw * bh

\* CoordList with the enumeration started one coordinate too late
RECURSIVE CoordList_FromOne(_, _)
CoordList_FromOne(size, k) ==
    IF k + 1 >= size * size THEN <<>>
    ELSE << <<(k + 1) \div size, (k + 1) % size>> >>
             \o CoordList_FromOne(size, k + 1)

\* (0..size).flat_map(|column| (0..size).map(move |row| (column, row)))
RECURSIVE CoordList(_, _)
CoordList(size, k) ==
    IF k = size * size THEN <<>>
    ELSE << <<k \div size, k % size>> >> \o CoordList(size, k + 1)

Cells(size) == (0 .. size - 1) \X (0 .. size - 1)

EmptyGrid(size) == [c \in Cells(size) |-> None]

set_cell(g, column, row, n) == [g EXCEPT ![<<column, row>>] = n]

clear_cell(g, column, row) == [g EXCEPT ![<<column, row>>] = None]

count_clues(g) == Cardinality({c \in DOMAIN g : g[c] # None})

\* cells that share a group with (column, row) under the rule set
SameRow(c, column, row) == c[2] = row
SameColumn(c, column, row) == c[1] = column
SameBlock(c, column, row, bw, bh) ==
    /\ c[1] \div bw = column \div bw
    /\ c[2] \div bh = row \div bh
SameMainDiagonal(c, column, row) == c[1] = c[2] /\ column = row

Peers(column, row, bw, bh, r) ==
    {c \in Cells(Size(bw, bh)) :
        /\ c # <<column, row>>
        /\ \/ SameRow(c, column, row)
           \/ SameColumn(c, column, row)
           \/ SameBlock(c, column, row, bw, bh)
           \/ r = "DefaultDiagonal" /\ SameMainDiagonal(c, column, row)}

is_valid_number(g, column, row, n, bw, bh, r) ==
    \A c \in Peers(column, row, bw, bh, r) : g[c] # n

is_valid(g, bw, bh, r) ==
    \A c \in DOMAIN g :
        g[c] # None => is_valid_number(g, c[1], c[2], g[c], bw, bh, r)

(***************************************************************************)
(* shuffle                                                                 *)
(***************************************************************************)
\* Swap that copies one way only and loses the element at i
Swap_OneWay(vec, i, j) == [vec EXCEPT ![i + 1] = vec[j + 1]]

\* vec.swap(i, j) with zero-based i, j
Swap(vec, i, j) ==
    [vec EXCEPT ![i + 1] = vec[j + 1], ![j + 1] = vec[i + 1]]

\* the loop `for i in 1..(len - 1)` from index i on; every value of
\* rng.gen_range(0, i + 1) is possible
RECURSIVE ShuffleFrom(_, _)
ShuffleFrom(vec, i) ==
    IF i >= Len(vec) - 1 THEN {vec}
    ELSE UNION {ShuffleFrom(Swap(vec, i, j), i + 1) : j \in 0 .. i}

\* all vectors shuffle may return for the given input (len >= 1)
shuffle(nums) == ShuffleFrom(nums, 1)

\* Numbers with the exclusive range 1..size
RECURSIVE Numbers_Exclusive(_)
Numbers_Exclusive(size) ==
    IF size <= 1 THEN <<>> ELSE Append(Numbers_Exclusive(size - 1), size - 1)

\* 1..=size
RECURSIVE Numbers(_)
Numbers(size) == IF size = 0 THEN <<>> ELSE Append(Numbers(size - 1), size)

(***************************************************************************)
(* Generator                                                               *)
(***************************************************************************)
next_column(column, size) == (column + 1) % size
\* next_row that tests the current column instead of the next one
next_row_OfColumn(column, row, size) ==
    IF column = 0 THEN row + 1 ELSE row

next_row(column, row, size) ==
    IF next_column(column, size) = 0 THEN row + 1 ELSE row

Frame(column, row, order) == [column |-> column, row |-> row, rest |-> order]

Top == stack[Len(stack)]

Init ==
    /\ pc = "start"
    /\ block_width \in 0 .. MaxSize
    /\ block_height \in 0 .. MaxSize
    /\ block_width * block_height <= MaxSize
    /\ rule \in Rules
    /\ grid = <<>>
    /\ stack = <<>>
    /\ solver = "none"
    /\ coords = <<>>
    /\ number = None
    /\ original = <<>>
    /\ before = <<>>
    /\ reduces = 0

\* Sudoku::new_empty fails for a zero dimension
GenerateInvalid ==
    /\ pc = "start"
    /\ block_width = 0 \/ block_height = 0
    /\ pc' = "invalid_dimensions"
    /\ UNCHANGED <<block_width, block_height, rule, grid, stack, solver,
                   coords, number, original, before, reduces>>

\* generate: new_empty, then the call generate_rec(sudoku, 0, 0), which
\* shuffles the candidates of the first cell
GenerateStart ==
    /\ pc = "start"
    /\ block_width # 0 /\ block_height # 0
    /\ grid' = EmptyGrid(Size(block_width, block_height))
    /\ \E order \in shuffle(Numbers(Size(block_width, block_height))) :
           stack' = <<Frame(0, 0, order)>>
    /\ pc' = "gen"
    /\ UNCHANGED <<block_width, block_height, rule, solver, coords, number,
                   original, before, reduces>>

\* one iteration of the candidate loop whose candidate is rejected
GenerateReject ==
    /\ pc = "gen"
    /\ Top.rest # <<>>
    /\ ~is_valid_number(grid, Top.column, Top.row, Head(Top.rest),
                        block_width, block_height, rule)
    /\ stack' = [stack EXCEPT ![Len(stack)].rest = Tail(@)]
    /\ UNCHANGED <<pc, block_width, block_height, rule, grid, solver, coords,
                   number, original, before, reduces>>

\* one iteration whose candidate is accepted: set the cell and call
\* generate_rec for the next cell, which either returns true at once
\* (row == size; every frame above then returns true) or shuffles its own
\* candidates
GeneratePlace ==
    /\ pc = "gen"
    /\ Top.rest # <<>>
    /\ is_valid_number(grid, Top.column, Top.row, Head(Top.rest),
                       block_width, block_height, rule)
    /\ LET size == Size(block_width, block_height)
           nc == next_column(Top.column, size)
           nr == next_row(Top.column, Top.row, size)
           placed == set_cell(grid, Top.column, Top.row, Head(Top.rest))
           popped == [stack EXCEPT ![Len(stack)].rest = Tail(@)]
       IN  /\ grid' = placed
           /\ IF nr = size
              THEN /\ stack' = <<>>
                   /\ pc' = "generated"
                   /\ original' = placed
              ELSE /\ \E order \in shuffle(Numbers(size)) :
                          stack' = Append(popped, Frame(nc, nr, order))
                   /\ pc' = "gen"
                   /\ original' = original
    /\ UNCHANGED <<block_width, block_height, rule, solver, coords, number,
                   before, reduces>>

\* GenerateBacktrack that shuffles the candidates again instead of returning
GenerateBacktrack_Retry ==
    /\ pc = "gen"
    /\ stack[Len(stack)].rest = <<>>
    /\ \E order \in shuffle(Numbers(Size(block_width, block_height))) :
           stack' = [stack EXCEPT ![Len(stack)].rest = order]
    /\ UNCHANGED <<pc, block_width, block_height, rule, grid, solver, coords,
                   number, original, before, reduces>>

\* the candidate loop is exhausted: generate_rec returns false, and the
\* caller clears its cell (or generate returns UnsatisfiableConstraint)
GenerateBacktrack ==
    /\ pc = "gen"
    /\ Top.rest = <<>>
    /\ LET popped == SubSeq(stack, 1, Len(stack) - 1)
       IN  /\ stack' = popped
           /\ IF popped = <<>>
              THEN /\ pc' = "unsatisfiable"
                   /\ grid' = grid
              ELSE /\ pc' = "gen"
                   /\ grid' = clear_cell(grid, popped[Len(popped)].column,
                                         popped[Len(popped)].row)
    /\ UNCHANGED <<block_width, block_height, rule, solver, coords, number,
                   original, before, reduces>>

GenNext ==
    \/ GenerateInvalid
    \/ GenerateStart
    \/ GenerateReject
    \/ GeneratePlace
    \/ GenerateBacktrack

GenSpec == Init /\ [][GenNext]_vars /\ WF_vars(GenNext)

(***************************************************************************)
(* Solvers                                                                 *)
(***************************************************************************)
Unique(g) == [kind |-> "Unique", grid |-> g]
Ambiguous == [kind |-> "Ambiguous", grid |-> <<>>]
Impossible == [kind |-> "Impossible", grid |-> <<>>]

\* every valid way to fill the empty cells from cell k on
RECURSIVE Fill(_, _, _, _, _)
Fill(g, k, bw, bh, r) ==
    LET size == Size(bw, bh)
        column == k % size
        row == k \div size
    IN  IF k = size * size THEN {g}
        ELSE IF g[<<column, row>>] # None THEN Fill(g, k + 1, bw, bh, r)
        ELSE UNION {Fill(set_cell(g, column, row, n), k + 1, bw, bh, r) :
                       n \in {m \in 1 .. size :
                                 is_valid_number(g, column, row, m, bw, bh, r)}}

\* BacktrackingSolver: the exact uniqueness oracle
BacktrackingSolve(g, bw, bh, r) ==
    LET found == Fill(g, 0, bw, bh, r)
    IN  IF found = {} THEN Impossible
        ELSE IF Cardinality(found) = 1 THEN Unique(CHOOSE s \in found : TRUE)
        ELSE Ambiguous

\* TopLeftSolver of the test module
TopLeftSolve(g, bw, bh, r) ==
    LET size == Size(bw, bh)
        cells == size * size
        clues == count_clues(g)
        options == {i \in 1 .. size : is_valid_number(g, 0, 0, i, bw, bh, r)}
    IN  IF clues = cells THEN Unique(g)
        ELSE IF clues < cells - 1 THEN Ambiguous
        ELSE IF g[<<0, 0>>] # None THEN Ambiguous
        ELSE IF Cardinality(options) > 1 THEN Ambiguous
        ELSE IF options = {} THEN Impossible
        ELSE Unique(set_cell(g, 0, 0, CHOOSE i \in options : TRUE))

solve(s, g, bw, bh, r) ==
    IF s = "TopLeftSolver" THEN TopLeftSolve(g, bw, bh, r)
    ELSE BacktrackingSolve(g, bw, bh, r)

(***************************************************************************)
(* Reducer                                                                 *)
(***************************************************************************)
\* is_unique that takes every verdict but Impossible
is_unique_NotImpossible(solution) == solution.kind # "Impossible"

\* is_unique that matches the wrong variant
is_unique_Impossible(solution) == solution.kind = "Impossible"

\* if let Solution::Unique(_) = self.solver.solve(sudoku)
is_unique(solution) == solution.kind = "Unique"

\* Reducer::new with some solver, then reduce up to the start of the loop:
\* the coordinate list is shuffled once.  reduce may be applied to the
\* generator's output or to a Sudoku that was reduced before.
ReduceStart ==
    /\ pc \in {"generated", "reduced"}
    /\ reduces < MaxReduces
    /\ Size(block_width, block_height) <= MaxReduceSize
    /\ solver' \in Solvers
    /\ coords' \in shuffle(CoordList(Size(block_width, block_height), 0))
    /\ before' = grid
    /\ reduces' = reduces + 1
    /\ number' = None
    /\ pc' = "reduce"
    /\ UNCHANGED <<block_width, block_height, rule, grid, stack, original>>

\* the coordinate's cell is empty: nothing happens
ReduceSkip ==
    /\ pc = "reduce"
    /\ coords # <<>>
    /\ grid[Head(coords)] = None
    /\ coords' = Tail(coords)
    /\ UNCHANGED <<pc, block_width, block_height, rule, grid, stack, solver,
                   number, original, before, reduces>>

\* the coordinate's cell holds a digit: remember it and clear the cell
ReduceClear ==
    /\ pc = "reduce"
    /\ coords # <<>>
    /\ grid[Head(coords)] # None
    /\ number' = grid[Head(coords)]
    /\ grid' = clear_cell(grid, Head(coords)[1], Head(coords)[2])
    /\ pc' = "trial"
    /\ UNCHANGED <<block_width, block_height, rule, stack, solver, coords,
                   original, before, reduces>>

\* the solver's verdict on the trial removal is Unique: the cell stays empty
ReduceKeep ==
    /\ pc = "trial"
    /\ is_unique(solve(solver, grid, block_width, block_height, rule))
    /\ coords' = Tail(coords)
    /\ number' = None
    /\ pc' = "reduce"
    /\ UNCHANGED <<block_width, block_height, rule, grid, stack, solver,
                   original, before, reduces>>

\* ReduceRestore that moves on without writing the digit back
ReduceRestore_NoRestore ==
    /\ pc = "trial"
    /\ ~is_unique(solve(solver, grid, block_width, block_height, rule))
    /\ coords' = Tail(coords)
    /\ number' = None
    /\ pc' = "reduce"
    /\ UNCHANGED <<block_width, block_height, rule, grid, stack, solver,
                   original, before, reduces>>

\* ReduceRestore that writes back the digit after the remembered one
ReduceRestore_WrongDigit ==
    /\ pc = "trial"
    /\ ~is_unique(solve(solver, grid, block_width, block_height, rule))
    /\ grid' = set_cell(grid, Head(coords)[1], Head(coords)[2],
                        (number % Size(block_width, block_height)) + 1)
    /\ coords' = Tail(coords)
    /\ number' = None
    /\ pc' = "reduce"
    /\ UNCHANGED <<block_width, block_height, rule, stack, solver, original,
                   before, reduces>>

\* any other verdict: the remembered digit is written back
ReduceRestore ==
    /\ pc = "trial"
    /\ ~is_unique(solve(solver, grid, block_width, block_height, rule))
    /\ grid' = set_cell(grid, Head(coords)[1], Head(coords)[2], number)
    /\ coords' = Tail(coords)
    /\ number' = None
    /\ pc' = "reduce"
    /\ UNCHANGED <<block_width, block_height, rule, stack, solver, original,
                   before, reduces>>

\* the loop is over: reduce returns
ReduceReturn ==
    /\ pc = "reduce"
    /\ coords = <<>>
    /\ pc' = "reduced"
    /\ UNCHANGED <<block_width, block_height, rule, grid, stack, solver,
                   coords, number, original, before, reduces>>

Next ==
    \/ GenerateInvalid
    \/ GenerateStart
    \/ GenerateReject
    \/ GeneratePlace
    \/ GenerateBacktrack
    \/ ReduceStart
    \/ ReduceSkip
    \/ ReduceClear
    \/ ReduceKeep
    \/ ReduceRestore
    \/ ReduceReturn

Spec == Init /\ [][Next]_vars

(***************************************************************************)
(* Properties                                                              *)
(***************************************************************************)
size == Size(block_width, block_height)

Range(seq) == {seq[i] : i \in 1 .. Len(seq)}

\* every ordering of a sequence of distinct elements
Orderings(seq) ==
    {p \in [1 .. Len(seq) -> Range(seq)] :
        \A e \in Range(seq) : \E i \in 1 .. Len(seq) : p[i] = e}

\* every completely filled grid that satisfies the rule set
ValidFullGrids(bw, bh, r) ==
    {g \in [Cells(Size(bw, bh)) -> 1 .. Size(bw, bh)] : is_valid(g, bw, bh, r)}

Verdict == solve(solver, grid, block_width, block_height, rule)

\* C1: a grid returned by generate has all size*size cells filled, and
\* every cell's digit is accepted by is_valid_number given the rest of the
\* grid (is_valid holds).
C1_GeneratedFullAndValid ==
    pc = "generated" =>
        /\ DOMAIN grid = Cells(size)
        /\ \A c \in DOMAIN grid : grid[c] \in 1 .. size
        /\ count_clues(grid) = size * size
        /\ is_valid(grid, block_width, block_height, rule)

C1_Witness ==
    /\ pc = "generated"
    /\ size = 3
    /\ grid[<<0, 0>>] = 2

\* C2: after reduce with solver S on a grid returned by generate, S judges
\* the reduced grid Unique and the completion it carries is the grid that
\* generate returned.
C2_ReducedUniquelySolvable ==
    (pc = "reduced" /\ reduces = 1) => Verdict = Unique(original)

C2_Witness ==
    /\ pc = "reduced"
    /\ reduces = 1
    /\ solver = "BacktrackingSolver"
    /\ count_clues(grid) < count_clues(original)
    /\ count_clues(grid) > 0

\* C3: reduce only removes clues: a cell that was empty when reduce was
\* called is empty when it returns, and a cell that is filled when it
\* returns holds the digit it held when reduce was called.
C3_OnlyRemovesClues ==
    pc = "reduced" =>
        \A c \in DOMAIN grid :
            /\ before[c] = None => grid[c] = None
            /\ grid[c] # None => grid[c] = before[c]

C3_Witness ==
    /\ pc = "reduced"
    /\ reduces = 2
    /\ \E c \in DOMAIN grid : before[c] = None
    /\ \E c \in DOMAIN grid : before[c] # None /\ grid[c] = None
    /\ \E c \in DOMAIN grid : grid[c] # None

\* C4: reducing a generated grid with the TopLeftSolver leaves exactly
\* size*size - 1 clues, and the one empty cell is (0, 0), whatever the
\* order of the coordinates.
C4_TopLeftRemovesOnlyTopLeft ==
    (pc = "reduced" /\ reduces = 1 /\ solver = "TopLeftSolver") =>
        /\ count_clues(grid) = size * size - 1
        /\ grid[<<0, 0>>] = None

C4_Witness ==
    /\ pc = "reduced"
    /\ reduces = 1
    /\ solver = "TopLeftSolver"
    /\ size = 2

\* C5: reducing a grid generated under the default rule set with the
\* BacktrackingSolver leaves a grid that is valid and has at most
\* size*(size-1) clues.
C5_ReducedValidAndNotFull ==
    (/\ pc = "reduced"
     /\ reduces = 1
     /\ solver = "BacktrackingSolver"
     /\ rule = "Default") =>
        /\ is_valid(grid, block_width, block_height, rule)
        /\ count_clues(grid) <= size * (size - 1)

C5_Witness ==
    /\ pc = "reduced"
    /\ reduces = 1
    /\ solver = "BacktrackingSolver"
    /\ rule = "Default"
    /\ size = 2
    /\ count_clues(grid) = 1

C7_UnsatisfiableIffNoValidGrid ==
    pc \in {"generated", "unsatisfiable"} =>
        (pc = "unsatisfiable"
            <=> ValidFullGrids(block_width, block_height, rule) = {})

C7_Witness ==
    /\ pc = "unsatisfiable"
    /\ rule = "DefaultDiagonal"
    /\ stack = <<>>

\* C8 as claimed: in every state of reduce, the trial state between
\* clearing a cell and the solver's verdict included, the solver judges
\* the grid Unique.
C8_UniqueAtEveryPoint ==
    (pc \in {"reduce", "trial", "reduced"} /\ reduces = 1) =>
        is_unique(Verdict)

\* C8 as amended: between the coordinate attempts of reduce (before the
\* first, after each keep or restore, and when reduce returns) the solver
\* judges the grid Unique.
C8_UniqueBetweenAttempts ==
    (pc \in {"reduce", "reduced"} /\ reduces = 1) => is_unique(Verdict)

\* a restore has happened: more coordinates were visited than cells cleared
C8_Witness ==
    /\ pc = "reduce"
    /\ reduces = 1
    /\ coords # <<>>
    /\ count_clues(grid) > Len(coords)

\* C9: generate terminates: it returns a grid, UnsatisfiableConstraint or
\* InvalidDimensions.
C9_GenerateTerminates ==
    <>(pc \in {"generated", "unsatisfiable", "invalid_dimensions"})

\* a dead end was left by backtracking and the search still ended
C9_Witness ==
    /\ pc = "unsatisfiable"
    /\ size = 2
    /\ grid = EmptyGrid(size)

\* C10: shuffle returns a permutation of its input, and every ordering of
\* the input is a possible result.
C10_EveryOrderingPossible ==
    pc = "gen" =>
        shuffle(Numbers(size)) = Orderings(Numbers(size))

====
